---- MODULE Spec2Model ----
(***************************************************************************)
(* Model of the tileset comparator (src/src/main.rs).                      *)
(*                                                                         *)
(* Representation of the Rust values:                                      *)
(*   String                 a sequence of byte values (Chr gives the bytes *)
(*                          used), so that String's Ord is the byte-wise   *)
(*                          lexicographic order and `+` is \o              *)
(*   Vec<T>, SingleOrVec<T> a sequence                                     *)
(*   Option<T>              <<>> for None, <<v>> for Some(v)               *)
(*   struct                 a record with the struct's field names         *)
(*   RgbaImage              [width, height, px] with px the pixels in      *)
(*                          raster order (one colour value per pixel)      *)
(***************************************************************************)
EXTENDS Integers, Sequences, FiniteSets, TLC

VARIABLES
    fs,     \* the generated artifacts of each tileset directory
    out     \* the operation that ran last: its arguments and what it did

vars == <<fs, out>>

----------------------------------------------------------------------------
(* Option<T> *)
None == <<>>
Some(v) == <<v>>
is_none(o) == o = <<>>
unwrap_or(o, d) == IF o = <<>> THEN d ELSE o[1]

(* The bytes of the characters the ids of the model are written with. *)
Chr == [us |-> 95, a |-> 97, b |-> 98, c |-> 99]

Range(s) == {s[i] : i \in DOMAIN s}

----------------------------------------------------------------------------
(* The derived Ord of the program's types: cmp gives -1, 0 or 1.           *)

cmp_int(a, b) == IF a < b THEN -1 ELSE IF a > b THEN 1 ELSE 0

cmp_bool(a, b) == cmp_int(IF a THEN 1 ELSE 0, IF b THEN 1 ELSE 0)

\* Vec<i32>, String: element-wise, a proper prefix is smaller.
RECURSIVE cmp_ints(_, _)
cmp_ints(s, t) ==
    IF s = <<>> THEN (IF t = <<>> THEN 0 ELSE -1)
    ELSE IF t = <<>> THEN 1
    ELSE IF cmp_int(s[1], t[1]) # 0 THEN cmp_int(s[1], t[1])
    ELSE cmp_ints(Tail(s), Tail(t))

\* Option<i32>: None < Some(_).
cmp_opt_int(a, b) ==
    IF a = <<>> THEN (IF b = <<>> THEN 0 ELSE -1)
    ELSE IF b = <<>> THEN 1
    ELSE cmp_int(a[1], b[1])

\* Option<bool>: None < Some(false) < Some(true).
cmp_opt_bool(a, b) ==
    IF a = <<>> THEN (IF b = <<>> THEN 0 ELSE -1)
    ELSE IF b = <<>> THEN 1
    ELSE cmp_bool(a[1], b[1])

\* Vec<String>
RECURSIVE cmp_strings(_, _)
cmp_strings(s, t) ==
    IF s = <<>> THEN (IF t = <<>> THEN 0 ELSE -1)
    ELSE IF t = <<>> THEN 1
    ELSE IF cmp_ints(s[1], t[1]) # 0 THEN cmp_ints(s[1], t[1])
    ELSE cmp_strings(Tail(s), Tail(t))

\* SpriteIdWithWeight: id, then weight.
cmp_spidw(a, b) ==
    IF cmp_ints(a.id, b.id) # 0 THEN cmp_ints(a.id, b.id)
    ELSE cmp_opt_int(a.weight, b.weight)

\* SingleOrVec<SpriteIdWithWeight>
RECURSIVE cmp_spidws(_, _)
cmp_spidws(s, t) ==
    IF s = <<>> THEN (IF t = <<>> THEN 0 ELSE -1)
    ELSE IF t = <<>> THEN 1
    ELSE IF cmp_spidw(s[1], t[1]) # 0 THEN cmp_spidw(s[1], t[1])
    ELSE cmp_spidws(Tail(s), Tail(t))

\* SingleTile: the fields in the order of their declaration.
cmp_tile(a, b) ==
    IF cmp_strings(a.id, b.id) # 0 THEN cmp_strings(a.id, b.id)
    ELSE IF cmp_spidws(a.fg, b.fg) # 0 THEN cmp_spidws(a.fg, b.fg)
    ELSE IF cmp_spidws(a.bg, b.bg) # 0 THEN cmp_spidws(a.bg, b.bg)
    ELSE IF cmp_opt_bool(a.rotates, b.rotates) # 0 THEN cmp_opt_bool(a.rotates, b.rotates)
    ELSE IF cmp_bool(a.multitile, b.multitile) # 0 THEN cmp_bool(a.multitile, b.multitile)
    ELSE IF cmp_bool(a.animated, b.animated) # 0 THEN cmp_bool(a.animated, b.animated)
    ELSE cmp_int(a.height_3d, b.height_3d)

\* Vec::sort (stable): x goes behind the elements that are not greater.
RECURSIVE insert_tile(_, _)
insert_tile(x, s) ==
    IF s = <<>> THEN <<x>>
    ELSE IF cmp_tile(x, s[1]) < 0 THEN <<x>> \o s
    ELSE <<s[1]>> \o insert_tile(x, Tail(s))

RECURSIVE sort_tiles_from(_, _)
sort_tiles_from(s, acc) ==
    IF s = <<>> THEN acc ELSE sort_tiles_from(Tail(s), insert_tile(s[1], acc))

sort_tiles(s) == sort_tiles_from(s, <<>>)

\* [&str]::sort_unstable, Vec<&str>::sort
RECURSIVE insert_str(_, _)
insert_str(x, s) ==
    IF s = <<>> THEN <<x>>
    ELSE IF cmp_ints(x, s[1]) < 0 THEN <<x>> \o s
    ELSE <<s[1]>> \o insert_str(x, Tail(s))

RECURSIVE sort_strs_from(_, _)
sort_strs_from(s, acc) ==
    IF s = <<>> THEN acc ELSE sort_strs_from(Tail(s), insert_str(s[1], acc))

sort_strs(s) == sort_strs_from(s, <<>>)

----------------------------------------------------------------------------
(* TileAtlas *)

tiles_total(atlas) == atlas.tiles_x * atlas.tiles_y

\* in_bounds with the end of the range counted in.
in_bounds_end_inclusive(atlas, tile_id) ==
    tile_id >= atlas.tiles_start /\ tile_id <= atlas.tiles_end

in_bounds(atlas, tile_id) ==
    tile_id >= atlas.tiles_start /\ tile_id < atlas.tiles_end

\* The pixels of the w x h rectangle at (x, y), row by row.
view_pixels(img, x, y, w, h) ==
    [k \in 1..(w * h) |->
        img.px[(y + ((k - 1) \div w)) * img.width + x + ((k - 1) % w) + 1]]

\* get_sprite that takes the grid for tiles_y wide.
get_sprite_by_rows(atlas, tile_id) ==
    IF tile_id < atlas.tiles_start \/ atlas.tiles_y = 0
    THEN [panics |-> TRUE, within_x |-> 0, within_y |-> 0, x |-> 0, y |-> 0,
          w |-> atlas.sprite_w, h |-> atlas.sprite_h, pixels |-> <<>>]
    ELSE LET id_within_atlas == tile_id - atlas.tiles_start
             within_x == id_within_atlas % atlas.tiles_y
             within_y == id_within_atlas \div atlas.tiles_y
             x == within_x * atlas.sprite_w
             y == within_y * atlas.sprite_h
             inside == /\ x + atlas.sprite_w <= atlas.img.width
                       /\ y + atlas.sprite_h <= atlas.img.height
         IN  [panics |-> ~inside, within_x |-> within_x, within_y |-> within_y,
              x |-> x, y |-> y, w |-> atlas.sprite_w, h |-> atlas.sprite_h,
              pixels |-> IF inside
                         THEN view_pixels(atlas.img, x, y, atlas.sprite_w, atlas.sprite_h)
                         ELSE <<>>]

\* get_sprite: the cell of tile_id.  panics is what the build can do instead
\* of returning: the subtraction underflows, the remainder divides by zero,
\* or the rectangle handed to view() leaves the image.
get_sprite(atlas, tile_id) ==
    IF tile_id < atlas.tiles_start \/ atlas.tiles_x = 0
    THEN [panics |-> TRUE, within_x |-> 0, within_y |-> 0, x |-> 0, y |-> 0,
          w |-> atlas.sprite_w, h |-> atlas.sprite_h, pixels |-> <<>>]
    ELSE LET id_within_atlas == tile_id - atlas.tiles_start
             within_x == id_within_atlas % atlas.tiles_x
             within_y == id_within_atlas \div atlas.tiles_x
             x == within_x * atlas.sprite_w
             y == within_y * atlas.sprite_h
             inside == /\ x + atlas.sprite_w <= atlas.img.width
                       /\ y + atlas.sprite_h <= atlas.img.height
         IN  [panics |-> ~inside, within_x |-> within_x, within_y |-> within_y,
              x |-> x, y |-> y, w |-> atlas.sprite_w, h |-> atlas.sprite_h,
              pixels |-> IF inside
                         THEN view_pixels(atlas.img, x, y, atlas.sprite_w, atlas.sprite_h)
                         ELSE <<>>]

\* DefaultHasher: a deterministic function of the values fed to it, in order.
\* The 64-bit state and its narrowing to u32 are scaled down to HashMod.
HashMod == 64

hasher_write(state, v) == (state * 5 + v + 3) % (HashMod * HashMod)

RECURSIVE hasher_write_all(_, _)
hasher_write_all(state, s) ==
    IF s = <<>> THEN state ELSE hasher_write_all(hasher_write(state, s[1]), Tail(s))

hasher_finish_as_u32(state) == (state * 7 + (state \div HashMod)) % HashMod

\* TileAtlas::get_sprite_hash
atlas_get_sprite_hash(atlas, tile_id) ==
    IF ~in_bounds(atlas, tile_id)
    THEN [value |-> 0, warned |-> TRUE, panics |-> FALSE]
    ELSE LET subimg == get_sprite(atlas, tile_id)
         IN  IF subimg.panics
             THEN [value |-> 0, warned |-> FALSE, panics |-> TRUE]
             ELSE [value |-> hasher_finish_as_u32(
                                hasher_write_all(0,
                                    <<atlas.sprite_w, atlas.sprite_h>> \o subimg.pixels)),
                   warned |-> FALSE, panics |-> FALSE]

\* get_sprite_hash: the first atlas that has tile_id in bounds hashes it.
RECURSIVE get_sprite_hash(_, _)
get_sprite_hash(atlases, tile_id) ==
    IF atlases = <<>> THEN [value |-> 0, warned |-> TRUE, panics |-> FALSE]
    ELSE IF in_bounds(atlases[1], tile_id) THEN atlas_get_sprite_hash(atlases[1], tile_id)
    ELSE get_sprite_hash(Tail(atlases), tile_id)

----------------------------------------------------------------------------
(* Tileset::generate_variations *)

\* The atlas of one tiles-new block (the image of its file, decoded), with
\* the id range that starts at tiles_start.
new_atlas(ts, tiles_new, tiles_start) ==
    LET img == tiles_new.file
        sprite_w == unwrap_or(tiles_new.sprite_width, ts.tile_info[1].width)
        sprite_h == unwrap_or(tiles_new.sprite_height, ts.tile_info[1].height)
        atlas == [img |-> img,
                  sprite_w |-> sprite_w,
                  sprite_h |-> sprite_h,
                  tiles_x |-> img.width \div sprite_w,
                  tiles_y |-> img.height \div sprite_h,
                  tiles_start |-> tiles_start,
                  tiles_end |-> tiles_start]
    IN  [atlas EXCEPT !.tiles_end = atlas.tiles_start + tiles_total(atlas)]

\* build_atlases that does not move tiles_start on.
RECURSIVE build_atlases_same_start(_, _, _, _)
build_atlases_same_start(ts, i, tiles_start, atlases) ==
    IF i > Len(ts.tiles_new) THEN atlases
    ELSE LET atlas == new_atlas(ts, ts.tiles_new[i], tiles_start)
         IN  build_atlases_same_start(ts, i + 1, tiles_start, Append(atlases, atlas))

\* The first loop: one atlas per block, each starting where the last ended.
RECURSIVE build_atlases(_, _, _, _)
build_atlases(ts, i, tiles_start, atlases) ==
    IF i > Len(ts.tiles_new) THEN atlases
    ELSE LET atlas == new_atlas(ts, ts.tiles_new[i], tiles_start)
         IN  build_atlases(ts, i + 1, atlas.tiles_end, Append(atlases, atlas))

\* TileAtlas::dump_sprites_to_dir: the names (the decimal ids) of the files
\* written, and whether cutting a sprite out panics.
dump_sprites_to_dir(atlas) ==
    [files |-> atlas.tiles_start .. (atlas.tiles_end - 1),
     panics |-> \E tile_id \in atlas.tiles_start .. (atlas.tiles_end - 1) :
                    get_sprite(atlas, tile_id).panics]

\* hash_sprites: every sprite id of every entry replaced by its hash.
hash_sprites(ids, atlases) ==
    [i \in DOMAIN ids |->
        [id |-> [j \in DOMAIN ids[i].id |-> get_sprite_hash(atlases, ids[i].id[j]).value],
         weight |-> ids[i].weight]]

hash_sprites_panics(ids, atlases) ==
    \E i \in DOMAIN ids : \E j \in DOMAIN ids[i].id :
        get_sprite_hash(atlases, ids[i].id[j]).panics

RECURSIVE concat_all(_)
concat_all(ss) == IF ss = <<>> THEN <<>> ELSE ss[1] \o concat_all(Tail(ss))

\* cloned_base without the default of rotates.
cloned_base_rotates_as_authored(tile, id, do_hash, atlases) ==
    LET named == [tile.base EXCEPT !.id = <<id>>]
    IN  IF do_hash
        THEN [named EXCEPT !.fg = hash_sprites(named.fg, atlases),
                           !.bg = hash_sprites(named.bg, atlases)]
        ELSE named

\* The clone of a definition's base for one of its ids.
cloned_base(tile, id, do_hash, atlases) ==
    LET named == [tile.base EXCEPT !.id = <<id>>]
        hashed == IF do_hash
                  THEN [named EXCEPT !.fg = hash_sprites(named.fg, atlases),
                                     !.bg = hash_sprites(named.bg, atlases)]
                  ELSE named
    IN  IF is_none(hashed.rotates)
        THEN [hashed EXCEPT !.rotates = Some(hashed.multitile)]
        ELSE hashed

\* cloned_additional that leaves the additional tile its own height.
cloned_additional_own_height(cloned, at, id, at_id, do_hash, atlases) ==
    LET named == [at EXCEPT !.id = <<id \o <<Chr.us>> \o at_id>>]
        hashed == IF do_hash
                  THEN [named EXCEPT !.fg = hash_sprites(named.fg, atlases),
                                     !.bg = hash_sprites(named.bg, atlases)]
                  ELSE named
    IN  [hashed EXCEPT !.rotates = Some(TRUE)]

\* The clone of an additional tile for one id of the parent and one of its own.
cloned_additional(cloned, at, id, at_id, do_hash, atlases) ==
    LET named == [at EXCEPT !.id = <<id \o <<Chr.us>> \o at_id>>]
        hashed == IF do_hash
                  THEN [named EXCEPT !.fg = hash_sprites(named.fg, atlases),
                                     !.bg = hash_sprites(named.bg, atlases)]
                  ELSE named
    IN  [hashed EXCEPT !.rotates = Some(TRUE), !.height_3d = cloned.height_3d]

\* variations_of_id that pushes the base once per additional tile.
variations_of_id_base_in_loop(tile, id, do_hash, atlases) ==
    LET cloned == cloned_base(tile, id, do_hash, atlases)
    IN  concat_all([k \in DOMAIN tile.additional_tiles |->
            [m \in DOMAIN tile.additional_tiles[k].id |->
                cloned_additional(cloned, tile.additional_tiles[k], id,
                                  tile.additional_tiles[k].id[m], do_hash, atlases)]
            \o <<cloned>>])

\* What one id of one definition pushes: its additional tiles, then its base.
variations_of_id(tile, id, do_hash, atlases) ==
    LET cloned == cloned_base(tile, id, do_hash, atlases)
    IN  concat_all([k \in DOMAIN tile.additional_tiles |->
            [m \in DOMAIN tile.additional_tiles[k].id |->
                cloned_additional(cloned, tile.additional_tiles[k], id,
                                  tile.additional_tiles[k].id[m], do_hash, atlases)]])
        \o <<cloned>>

variations_of_tile(tile, do_hash, atlases) ==
    concat_all([n \in DOMAIN tile.base.id |->
        variations_of_id(tile, tile.base.id[n], do_hash, atlases)])

\* The second loop: the tiles in the order they are pushed.
pushed_variations(ts, do_hash, atlases) ==
    concat_all([i \in DOMAIN ts.tiles_new |->
        concat_all([t \in DOMAIN ts.tiles_new[i].tiles |->
            variations_of_tile(ts.tiles_new[i].tiles[t], do_hash, atlases)])])

variations_panic(ts, atlases) ==
    \E i \in DOMAIN ts.tiles_new : \E t \in DOMAIN ts.tiles_new[i].tiles :
        LET tile == ts.tiles_new[i].tiles[t]
        IN  /\ tile.base.id # <<>>
            /\ \/ hash_sprites_panics(tile.base.fg, atlases)
               \/ hash_sprites_panics(tile.base.bg, atlases)
               \/ \E k \in DOMAIN tile.additional_tiles :
                    /\ tile.additional_tiles[k].id # <<>>
                    /\ \/ hash_sprites_panics(tile.additional_tiles[k].fg, atlases)
                       \/ hash_sprites_panics(tile.additional_tiles[k].bg, atlases)

\* generate_variations: the sorted list and the atlases; sprites is what the
\* sprites directory holds afterwards (it is removed and created anew first).
generate_variations(ts, do_hash, do_dump) ==
    LET atlases == build_atlases(ts, 1, 0, <<>>)
        dumps == [i \in DOMAIN atlases |-> dump_sprites_to_dir(atlases[i])]
    IN  [ret |-> sort_tiles(pushed_variations(ts, do_hash, atlases)),
         atlases |-> atlases,
         sprites |-> IF do_dump THEN UNION {dumps[i].files : i \in DOMAIN dumps} ELSE {},
         panicked |-> \/ do_dump /\ \E i \in DOMAIN dumps : dumps[i].panics
                      \/ do_hash /\ variations_panic(ts, atlases)]

----------------------------------------------------------------------------
(* compare_tilesets *)

\* x.id.0[0] of every tile.
tile_ids(tiles) == [j \in DOMAIN tiles |-> tiles[j].id[1]]

\* find_duplicates: the sorted ids without the first of each run of equal
\* ones.  partition_dedup leaves the order of what it moves behind open, so
\* the list is kept as the bag it is: id |-> times it is in the list.
find_duplicates(tiles) ==
    LET ids == sort_strs(tile_ids(tiles))
    IN  [id \in {ids[j] : j \in {i \in DOMAIN ids : i > 1 /\ ids[i] = ids[i - 1]}} |->
            Cardinality({i \in DOMAIN ids : i > 1 /\ ids[i] = ids[i - 1] /\ ids[i] = id})]

dups_is_empty(dups) == DOMAIN dups = {}

RECURSIVE set_to_seq(_)
set_to_seq(S) ==
    IF S = {} THEN <<>>
    ELSE LET x == CHOOSE y \in S : TRUE IN <<x>> \o set_to_seq(S \ {x})

\* dump_exclusives: the ids, sorted.
dump_exclusives(exc) == sort_strs(set_to_seq(exc))

\* dump_diffs: the ids of the tiles, sorted.
dump_diffs(elems) == sort_strs(tile_ids(set_to_seq(elems)))

\* differing_tiles without the restriction to the ids of the other side.
differing_tiles_unrestricted(mine, theirs) == Range(mine) \ Range(theirs)

\* The tiles of mine that theirs lacks and whose id theirs has.
differing_tiles(mine, theirs) ==
    LET idx_mine == Range(mine)
        idx_theirs == Range(theirs)
        ids_theirs == Range(tile_ids(theirs))
    IN  {x \in idx_mine \ idx_theirs : x.id[1] \in ids_theirs}

\* compare_tilesets that looks for duplicates in the first tileset only.
compare_tilesets_dups_of_first(ts1, ts2) ==
    LET gen1 == generate_variations(ts1, TRUE, TRUE)
        gen2 == generate_variations(ts2, TRUE, TRUE)
        vars1 == gen1.ret
        vars2 == gen2.ret
        dups1 == find_duplicates(vars1)
        dups2 == find_duplicates(vars2)
        do_diff == dups_is_empty(dups1)
        ids_1 == Range(tile_ids(vars1))
        ids_2 == Range(tile_ids(vars2))
    IN  [vars1 |-> vars1, vars2 |-> vars2,
         sprites1 |-> gen1.sprites, sprites2 |-> gen2.sprites,
         duplicates1 |-> dups1, duplicates2 |-> dups2,
         exclusives1 |-> dump_exclusives(ids_1 \ ids_2),
         exclusives2 |-> dump_exclusives(ids_2 \ ids_1),
         different1 |-> IF do_diff THEN Some(dump_diffs(differing_tiles(vars1, vars2)))
                        ELSE None,
         different2 |-> IF do_diff THEN Some(dump_diffs(differing_tiles(vars2, vars1)))
                        ELSE None,
         warned |-> ~do_diff]

\* The files compare_tilesets writes for the tilesets ts1 and ts2; different
\* is None when it writes none.
compare_tilesets(ts1, ts2) ==
    LET gen1 == generate_variations(ts1, TRUE, TRUE)
        gen2 == generate_variations(ts2, TRUE, TRUE)
        vars1 == gen1.ret
        vars2 == gen2.ret
        dups1 == find_duplicates(vars1)
        dups2 == find_duplicates(vars2)
        do_diff == dups_is_empty(dups1) /\ dups_is_empty(dups2)
        ids_1 == Range(tile_ids(vars1))
        ids_2 == Range(tile_ids(vars2))
    IN  [vars1 |-> vars1, vars2 |-> vars2,
         sprites1 |-> gen1.sprites, sprites2 |-> gen2.sprites,
         duplicates1 |-> dups1, duplicates2 |-> dups2,
         exclusives1 |-> dump_exclusives(ids_1 \ ids_2),
         exclusives2 |-> dump_exclusives(ids_2 \ ids_1),
         different1 |-> IF do_diff THEN Some(dump_diffs(differing_tiles(vars1, vars2)))
                        ELSE None,
         different2 |-> IF do_diff THEN Some(dump_diffs(differing_tiles(vars2, vars1)))
                        ELSE None,
         warned |-> ~do_diff]

----------------------------------------------------------------------------
(* extract_tiles *)

\* format!("{:010}", n): the ten decimal digits of n, zeros in front.
fmt_010(n) == [i \in 1..10 |-> (n \div (10 ^ (10 - i))) % 10]

\* save_tile_as: the first atlas that has tile_id in bounds gives the file,
\* named after the hash of the sprite; without such an atlas it panics.
RECURSIVE save_tile_as(_, _)
save_tile_as(atlases, tile_id) ==
    IF atlases = <<>> THEN [panics |-> TRUE, name |-> <<>>, pixels |-> <<>>]
    ELSE IF in_bounds(atlases[1], tile_id)
    THEN [panics |-> get_sprite(atlases[1], tile_id).panics,
          name |-> fmt_010(atlas_get_sprite_hash(atlases[1], tile_id).value),
          pixels |-> get_sprite(atlases[1], tile_id).pixels]
    ELSE save_tile_as(Tail(atlases), tile_id)

\* The sprite ids of a tile in the order the loops visit them: fg, then bg.
sprite_ids_of(variation) ==
    concat_all([i \in DOMAIN variation.fg |-> variation.fg[i].id])
        \o concat_all([i \in DOMAIN variation.bg |-> variation.bg[i].id])

\* The files saved for the sprite ids up to the first that panics.
RECURSIVE save_all(_, _, _)
save_all(atlases, sprite_ids, saved) ==
    IF sprite_ids = <<>> THEN [panicked |-> FALSE, saved |-> saved]
    ELSE LET f == save_tile_as(atlases, sprite_ids[1])
         IN  IF f.panics THEN [panicked |-> TRUE, saved |-> saved]
             ELSE save_all(atlases, Tail(sprite_ids), Append(saved, f))

\* vars_hm: an id's index is that of the last tile that has it.
vars_hm(tiles, id) ==
    IF \E j \in DOMAIN tiles : tiles[j].id[1] = id
    THEN Some(CHOOSE j \in DOMAIN tiles :
                /\ tiles[j].id[1] = id
                /\ \A k \in DOMAIN tiles : tiles[k].id[1] = id => k <= j)
    ELSE None

\* One round of the loop over the requested ids.
extract_one(tiles, vars_hashed, atlases, id) ==
    LET found == vars_hm(tiles, id)
    IN  IF found = None
        THEN [id |-> id, found |-> FALSE, warned |-> TRUE, panicked |-> FALSE,
              tile_hashed |-> None, variation |-> None, saved |-> <<>>]
        ELSE LET idx == found[1]
                 s == save_all(atlases, sprite_ids_of(tiles[idx]), <<>>)
             IN  [id |-> id, found |-> TRUE, warned |-> FALSE, panicked |-> s.panicked,
                  tile_hashed |-> Some(vars_hashed[idx]), variation |-> Some(tiles[idx]),
                  saved |-> s.saved]

\* The loop as it would be if a panic did not end it.
RECURSIVE extract_rounds_past_panic(_, _, _, _, _)
extract_rounds_past_panic(tiles, vars_hashed, atlases, ids, done) ==
    IF ids = <<>> THEN done
    ELSE extract_rounds_past_panic(tiles, vars_hashed, atlases, Tail(ids),
            Append(done, extract_one(tiles, vars_hashed, atlases, ids[1])))

\* The rounds that run: the loop ends with the ids or with a panic.
RECURSIVE extract_rounds(_, _, _, _, _)
extract_rounds(tiles, vars_hashed, atlases, ids, done) ==
    IF ids = <<>> THEN done
    ELSE LET r == extract_one(tiles, vars_hashed, atlases, ids[1])
         IN  IF r.panicked THEN Append(done, r)
             ELSE extract_rounds(tiles, vars_hashed, atlases, Tail(ids), Append(done, r))

\* The two expansions extract_tiles starts with: positional ids and hashes.
extract_expansions(ts) ==
    [plain |-> generate_variations(ts, FALSE, FALSE),
     hashed |-> generate_variations(ts, TRUE, TRUE)]

\* The loop over the requested ids, on the two expansions.
extract_loop(e, ids) ==
    LET rounds == extract_rounds(e.plain.ret, e.hashed.ret, e.plain.atlases, ids, <<>>)
    IN  [vars |-> e.plain.ret, vars_hashed |-> e.hashed.ret, atlases |-> e.plain.atlases,
         sprites |-> e.hashed.sprites, rounds |-> rounds,
         panicked |-> \E i \in DOMAIN rounds : rounds[i].panicked]

extract_tiles(ts, ids) == extract_loop(extract_expansions(ts), ids)

\* The files of the output directory after the rounds: <id>/<id>.json of the
\* ids found, and the images saved, a later file replacing one of its name.
RECURSIVE written_json(_, _)
written_json(rounds, files) ==
    IF rounds = <<>> THEN files
    ELSE written_json(Tail(rounds),
            IF rounds[1].found
            THEN [id \in DOMAIN files \cup {rounds[1].id} |->
                    IF id = rounds[1].id THEN rounds[1].tile_hashed[1] ELSE files[id]]
            ELSE files)

RECURSIVE written_png(_, _)
written_png(saved, files) ==
    IF saved = <<>> THEN files
    ELSE written_png(Tail(saved),
            [n \in DOMAIN files \cup {saved[1].name} |->
                IF n = saved[1].name THEN saved[1].pixels ELSE files[n]])

----------------------------------------------------------------------------
(* The inputs the operations are run on. *)

MaxAtlases == 2       \* tiles-new blocks of a tileset
MaxImgW == 5          \* width of an atlas image, in pixels
MaxAliases == 2       \* ids of one tile definition

SeqsUpTo(S, n) == UNION {[1..k -> S] : k \in 0..n}

Dirs == {"dirA", "dirB"}

\* An image of w x h pixels; the paint decides which colour is where.
Image(w, h, paint) ==
    [width |-> w, height |-> h,
     px |-> [k \in 1..(w * h) |-> (k * (paint + 1) + paint) % 3]]

\* tile_info: only its first entry is read.
TileInfo == <<[width |-> 2, height |-> 1]>>

Spidw(ids, weight) == [id |-> ids, weight |-> weight]

SingleTile(id, fg, bg, rotates, multitile, height_3d) ==
    [id |-> id, fg |-> fg, bg |-> bg, rotates |-> rotates,
     multitile |-> multitile, animated |-> FALSE, height_3d |-> height_3d]

Block(img, sprite_width, sprite_height, tiles) ==
    [file |-> img, sprite_width |-> sprite_width, sprite_height |-> sprite_height,
     tiles |-> tiles]

IdA == <<Chr.a>>
IdB == <<Chr.b>>
IdC == <<Chr.c>>

\* Tilesets that differ in their atlases: images 3 pixels high and 1 to
\* MaxImgW wide, cut into cells of 2x1 (the default of tile_info) or of 1x2,
\* so that there are atlases without a cell, atlases of several rows and
\* images with a remainder.  The one tile names sprites that some of the
\* tilesets have and others have not.
ProbeTile ==
    [base |-> SingleTile(<<IdA>>, <<Spidw(<<0, 3>>, None)>>, <<Spidw(<<9>>, Some(1))>>,
                         None, FALSE, 0),
     additional_tiles |-> <<SingleTile(<<IdB>>, <<Spidw(<<5>>, None)>>, <<>>, None, FALSE, 0)>>]

AtlasBlocks ==
    {Block(Image(w, 3, 0), cell[1], cell[2], <<ProbeTile>>) :
        w \in 1..MaxImgW, cell \in {<<None, None>>, <<Some(1), Some(2)>>}}

AtlasTilesets ==
    {[tile_info |-> TileInfo, tiles_new |-> bs] :
        bs \in SeqsUpTo(AtlasBlocks, MaxAtlases) \ {<<>>}}

\* Tilesets that differ in their tile definitions, over one atlas of three
\* sprites (ids 0, 1, 2; the sprite id 7 is in no atlas).
FgChoices ==
    {<<0, <<Spidw(<<0>>, None)>>>>,
     <<3, <<Spidw(<<1, 7>>, Some(2)), Spidw(<<2>>, None)>>>>}

SubTiles ==
    {SingleTile(ids, <<Spidw(<<1>>, None)>>, <<>>, Some(FALSE), FALSE, 7) :
        ids \in SeqsUpTo({IdB, IdC}, MaxAliases)}

BaseTiles ==
    {SingleTile(ids, fg[2], <<Spidw(<<2>>, None)>>, rot, multi, fg[1]) :
        ids \in SeqsUpTo({IdA, IdB}, MaxAliases), fg \in FgChoices,
        rot \in {None, Some(TRUE), Some(FALSE)}, multi \in BOOLEAN}

FirstDefs ==
    {[base |-> b, additional_tiles |-> ats] :
        b \in BaseTiles,
        ats \in {<<>>} \cup {<<s>> : s \in SubTiles}
                \cup {<<s, SingleTile(<<IdA>>, <<>>, <<>>, None, TRUE, 0)>> : s \in SubTiles}}

SimpleDef ==
    [base |-> SingleTile(<<IdA>>, <<Spidw(<<0>>, None)>>, <<>>, None, FALSE, 0),
     additional_tiles |-> <<>>]

RichDef ==
    [base |-> SingleTile(<<IdA, IdB>>, <<Spidw(<<1>>, None)>>, <<>>, None, TRUE, 5),
     additional_tiles |->
        <<SingleTile(<<IdB, IdC>>, <<Spidw(<<2>>, Some(3))>>, <<>>, Some(FALSE), FALSE, 0)>>]

TileTilesets ==
    {[tile_info |-> TileInfo,
      tiles_new |-> <<Block(Image(3, 1, 0), Some(1), None, <<d>> \o more)>>] :
        d \in FirstDefs, more \in {<<>>, <<SimpleDef>>, <<RichDef, SimpleDef>>}}

\* Tilesets to compare: up to two definitions with the ids a, b, c, a_b over
\* an atlas of three sprites of different content.  With paint 1 the content
\* that paint 0 has in sprite 0 is in sprite 2, so that the tile a is the same
\* tile in tilesets of the two paints.
PlainDef(id, fg) ==
    [base |-> SingleTile(<<id>>, <<Spidw(<<fg>>, None)>>, <<>>, None, FALSE, 0),
     additional_tiles |-> <<>>]

CompareDefs(paint) ==
    {PlainDef(IdA, IF paint = 0 THEN 0 ELSE 2), PlainDef(IdB, 0), PlainDef(IdB, 1),
     PlainDef(IdC, 1),
     [base |-> SingleTile(<<IdA>>, <<Spidw(<<0>>, None)>>, <<>>, None, FALSE, 0),
      additional_tiles |-> <<SingleTile(<<IdB>>, <<>>, <<>>, None, FALSE, 0)>>]}

CompareTilesets ==
    UNION {{[tile_info |-> TileInfo,
             tiles_new |-> <<Block(Image(3, 1, paint), Some(1), None, tiles)>>] :
                tiles \in {<<>>} \cup {<<d>> : d \in CompareDefs(paint)}
                            \cup {<<d, e>> : d \in CompareDefs(paint),
                                             e \in {PlainDef(IdB, 0), PlainDef(IdB, 1),
                                                    PlainDef(IdA \o <<Chr.us>> \o IdB, 1)}}} :
            paint \in {0, 1}}

\* Tilesets to extract from: up to two definitions with the ids a and b over
\* an atlas of three sprites (7 is in no atlas), and the ids asked for.
MaxRequested == 3     \* lines of the ids file

ExtractDefs ==
    {[base |-> SingleTile(<<id>>, <<Spidw(<<f>>, None)>>, <<Spidw(<<1>>, Some(2))>>,
                          None, FALSE, 0),
      additional_tiles |-> <<>>] : id \in {IdA, IdB}, f \in {0, 2, 7}}

ExtractTilesets ==
    {[tile_info |-> TileInfo,
      tiles_new |-> <<Block(Image(3, 1, 0), Some(1), None, tiles)>>] :
        tiles \in SeqsUpTo(ExtractDefs, 2)}

RequestedIds == SeqsUpTo({IdA, IdB, IdC}, MaxRequested)

----------------------------------------------------------------------------
(* The state: the files the program writes into a tileset directory (a     *)
(* file is None while it does not exist), and the last operation.          *)

NoFiles ==
    [sprites |-> {}, dump |-> None, duplicates |-> None, exclusives |-> None,
     different |-> None, extracted_json |-> <<>>, extracted_png |-> <<>>]

Init ==
    /\ fs = [d \in Dirs |-> NoFiles]
    /\ out = [op |-> "none"]

\* ts.generate_variations(do_hash, do_dump) on the tileset ts of directory d.
GenerateVariations(d, ts, do_hash, do_dump) ==
    \E r \in {generate_variations(ts, do_hash, do_dump)} :
        /\ out.op = "none"
        /\ fs' = [fs EXCEPT ![d].sprites = r.sprites]
        /\ out' = [op |-> "generate_variations", dir |-> d, ts |-> ts,
                   do_hash |-> do_hash, do_dump |-> do_dump,
                   ret |-> r.ret, atlases |-> r.atlases, panicked |-> r.panicked]

\* get_sprite_hash(atlases, tile_id) for the atlases of tileset ts.
GetSpriteHash(ts, tile_id) ==
    \E atlases \in {generate_variations(ts, FALSE, FALSE).atlases} :
        /\ out.op = "none"
        /\ out' = [op |-> "get_sprite_hash", atlases |-> atlases, tile_id |-> tile_id,
                   res |-> get_sprite_hash(atlases, tile_id)]
        /\ UNCHANGED fs

\* atlas.get_sprite(tile_id), which its callers call for ids in bounds only.
GetSprite(ts, k, tile_id) ==
    \E atlases \in {generate_variations(ts, FALSE, FALSE).atlases} :
        /\ out.op = "none"
        /\ k \in DOMAIN atlases
        /\ in_bounds(atlases[k], tile_id)
        /\ out' = [op |-> "get_sprite", atlas |-> atlases[k], tile_id |-> tile_id,
                   res |-> get_sprite(atlases[k], tile_id)]
        /\ UNCHANGED fs

\* compare <a> <b>, with the tilesets ts1 and ts2 in the two directories.
Compare(a, b, ts1, ts2) ==
    \E r \in {compare_tilesets(ts1, ts2)} :
        /\ a # b
        /\ fs' = [fs EXCEPT
                    ![a] = [@ EXCEPT !.sprites = r.sprites1, !.dump = Some(r.vars1),
                                     !.duplicates = Some(r.duplicates1),
                                     !.exclusives = Some(r.exclusives1),
                                     !.different = IF r.different1 # None
                                                   THEN r.different1 ELSE @],
                    ![b] = [@ EXCEPT !.sprites = r.sprites2, !.dump = Some(r.vars2),
                                     !.duplicates = Some(r.duplicates2),
                                     !.exclusives = Some(r.exclusives2),
                                     !.different = IF r.different2 # None
                                                   THEN r.different2 ELSE @]]
        /\ out' = [op |-> "compare", a |-> a, b |-> b,
                   vars1 |-> r.vars1, vars2 |-> r.vars2, warned |-> r.warned]

\* extract <d> <ids file>, with the tileset ts in the directory and any list
\* of ids in the file; a later run on the directory finds the same tileset and
\* the files of the runs before.
Extract(d, ts) ==
    /\ IF out.op = "extract" THEN out.ts = ts ELSE out.op = "none"
    /\ \E e \in {extract_expansions(ts)} :
        \E ids \in RequestedIds :
            \E r \in {extract_loop(e, ids)} :
                /\ fs' = [fs EXCEPT
                            ![d] = [@ EXCEPT
                                !.sprites = r.sprites,
                                !.extracted_json = written_json(r.rounds, @),
                                !.extracted_png =
                                    written_png(concat_all([i \in DOMAIN r.rounds |->
                                                                r.rounds[i].saved]), @)]]
                /\ out' = [op |-> "extract", dir |-> d, ts |-> ts, ids |-> ids,
                           vars |-> r.vars, vars_hashed |-> r.vars_hashed,
                           atlases |-> r.atlases, rounds |-> r.rounds,
                           panicked |-> r.panicked]

\* The sprite ids looked up: more than the atlases of a tileset have cells.
ProbeIds == 0 .. (MaxAtlases * (MaxImgW + 1) + 1)

\* The atlas operations, each applied to a tileset as it is loaded.
NextAtlas ==
    \/ /\ out.op = "none"
       /\ \E ts \in AtlasTilesets, flag \in BOOLEAN :
                GenerateVariations("dirA", ts, flag, flag)
    \/ /\ out.op = "none"
       /\ \E ts \in AtlasTilesets, tile_id \in ProbeIds : GetSpriteHash(ts, tile_id)
    \/ /\ out.op = "none"
       /\ \E ts \in AtlasTilesets, k \in 1..MaxAtlases, tile_id \in ProbeIds :
                GetSprite(ts, k, tile_id)

SpecAtlas == Init /\ [][NextAtlas]_vars

\* The expansion of tile definitions.
NextTiles ==
    /\ out.op = "none"
    /\ \E ts \in TileTilesets, flag \in BOOLEAN : GenerateVariations("dirA", ts, flag, flag)

SpecTiles == Init /\ [][NextTiles]_vars

\* The comparison, run again and again on the two directories, whose tilesets
\* may have changed in between.
Next ==
    \E ts1, ts2 \in CompareTilesets : Compare("dirA", "dirB", ts1, ts2)

Spec == Init /\ [][Next]_vars

\* The extraction, run again and again on one directory.
NextExtract == \E ts \in ExtractTilesets : Extract("dirA", ts)

SpecExtract == Init /\ [][NextExtract]_vars

----------------------------------------------------------------------------
(* Properties of generate_variations, stated over the tileset it was given *)
(* (out.ts) and what it returned (out.ret, out.atlases).                   *)

Expanded == out.op = "generate_variations"

\* The places of a tileset's definitions: <<block, definition>>.
DefSlots(ts) ==
    UNION {{<<i, t>> : t \in DOMAIN ts.tiles_new[i].tiles} : i \in DOMAIN ts.tiles_new}

DefAt(ts, s) == ts.tiles_new[s[1]].tiles[s[2]]

\* <<block, definition, alias>> and
\* <<block, definition, alias, additional tile, alias of the additional tile>>.
BaseSlots(ts) ==
    UNION {{<<s[1], s[2], n>> : n \in DOMAIN DefAt(ts, s).base.id} : s \in DefSlots(ts)}

CompositeSlots(ts) ==
    UNION {UNION {{<<s[1], s[2], s[3], k, m>> :
                        m \in DOMAIN DefAt(ts, s).additional_tiles[k].id} :
                    k \in DOMAIN DefAt(ts, s).additional_tiles} :
            s \in BaseSlots(ts)}

ParentId(ts, s) == DefAt(ts, s).base.id[s[3]]
SubTile(ts, s) == DefAt(ts, s).additional_tiles[s[4]]
SubId(ts, s) == SubTile(ts, s).id[s[5]]

\* The sprite references of the output: hashes when do_hash, else as authored.
Resolved(refs) == IF out.do_hash THEN hash_sprites(refs, out.atlases) ELSE refs

\* The tile the specification describes for a base slot and a composite slot.
ExpectedBase(ts, s) ==
    LET b == DefAt(ts, s).base
    IN  [id |-> <<ParentId(ts, s)>>,
         fg |-> Resolved(b.fg), bg |-> Resolved(b.bg),
         rotates |-> IF b.rotates # None THEN b.rotates ELSE Some(b.multitile),
         multitile |-> b.multitile, animated |-> b.animated, height_3d |-> b.height_3d]

ExpectedComposite(ts, s) ==
    LET at == SubTile(ts, s)
    IN  [id |-> <<ParentId(ts, s) \o <<Chr.us>> \o SubId(ts, s)>>,
         fg |-> Resolved(at.fg), bg |-> Resolved(at.bg),
         rotates |-> Some(TRUE),
         multitile |-> at.multitile, animated |-> at.animated,
         height_3d |-> DefAt(ts, s).base.height_3d]

Occurrences(seq, x) == Cardinality({j \in DOMAIN seq : seq[j] = x})

RECURSIVE SumSeq(_)
SumSeq(ns) == IF ns = <<>> THEN 0 ELSE ns[1] + SumSeq(Tail(ns))

\* |ids| * (1 + sum over the additional tiles of |sub ids|)
TilesOfDef(def) ==
    Len(def.base.id)
        * (1 + SumSeq([k \in DOMAIN def.additional_tiles |-> Len(def.additional_tiles[k].id)]))

RECURSIVE SumOverSet(_, _)
SumOverSet(S, ts) ==
    IF S = {} THEN 0
    ELSE LET s == CHOOSE x \in S : TRUE
         IN  TilesOfDef(DefAt(ts, s)) + SumOverSet(S \ {s}, ts)

\* C4: for every definition, parent alias P and alias S of an additional tile,
\* the output holds a tile with id P_S that rotates, has the parent's height,
\* and is the additional tile in its other fields.
C4_CompositeNaming ==
    Expanded =>
        \A s \in CompositeSlots(out.ts) :
            \E j \in DOMAIN out.ret :
                /\ out.ret[j].id = <<ParentId(out.ts, s) \o <<Chr.us>> \o SubId(out.ts, s)>>
                /\ out.ret[j].rotates = Some(TRUE)
                /\ out.ret[j].height_3d = DefAt(out.ts, s).base.height_3d
                /\ out.ret[j] = ExpectedComposite(out.ts, s)

\* An additional tile with rotates = false and a height other than its
\* parent's was expanded.
C4_Witness ==
    /\ Expanded
    /\ \E s \in CompositeSlots(out.ts) :
        /\ SubTile(out.ts, s).rotates = Some(FALSE)
        /\ SubTile(out.ts, s).height_3d # DefAt(out.ts, s).base.height_3d
        /\ \E j \in DOMAIN out.ret :
                out.ret[j].id = <<ParentId(out.ts, s) \o <<Chr.us>> \o SubId(out.ts, s)>>

\* C5: the output is, as a multiset, one base tile per alias and one composite
\* tile per (alias, additional tile, alias of the additional tile), so its
\* length is the sum over the definitions of |ids| * (1 + sum of |sub ids|);
\* the base tiles of two aliases of a definition differ in the id only.
C5_FanOut ==
    Expanded =>
        \A ts \in {out.ts} :
        \A base \in {[s \in BaseSlots(ts) |-> ExpectedBase(ts, s)]} :
        \A composite \in {[s \in CompositeSlots(ts) |-> ExpectedComposite(ts, s)]} :
            /\ Len(out.ret) = SumOverSet(DefSlots(ts), ts)
            /\ \A x \in Range(base) \cup Range(composite) \cup Range(out.ret) :
                    Occurrences(out.ret, x)
                        = Cardinality({s \in DOMAIN base : base[s] = x})
                          + Cardinality({s \in DOMAIN composite : composite[s] = x})
            /\ \A s1, s2 \in DOMAIN base :
                    (s1[1] = s2[1] /\ s1[2] = s2[2]) =>
                        \E j1, j2 \in DOMAIN out.ret :
                            /\ (s1 # s2 => j1 # j2)
                            /\ out.ret[j1].id = <<ParentId(ts, s1)>>
                            /\ out.ret[j2].id = <<ParentId(ts, s2)>>
                            /\ [out.ret[j1] EXCEPT !.id = <<>>] = [out.ret[j2] EXCEPT !.id = <<>>]

\* A definition without alias but with an additional tile gave no tile, next
\* to a definition of two aliases with an additional tile of two aliases,
\* which gave six, and a definition of one alias.
C5_Witness ==
    /\ Expanded
    /\ \E s \in DefSlots(out.ts) :
        /\ DefAt(out.ts, s).base.id = <<>>
        /\ \E k \in DOMAIN DefAt(out.ts, s).additional_tiles :
                DefAt(out.ts, s).additional_tiles[k].id # <<>>
    /\ \E s \in DefSlots(out.ts) :
        /\ Len(DefAt(out.ts, s).base.id) = 2
        /\ \E k \in DOMAIN DefAt(out.ts, s).additional_tiles :
                Len(DefAt(out.ts, s).additional_tiles[k].id) = 2
    /\ Len(out.ret) = 7

\* C6: every tile of the output has one id and a rotates flag; the base tile
\* of an alias has the authored rotates, or the multitile flag without one.
C6_RotatesResolved ==
    Expanded =>
        /\ \A j \in DOMAIN out.ret :
                /\ Len(out.ret[j].id) = 1
                /\ out.ret[j].rotates \in {Some(TRUE), Some(FALSE)}
        /\ \A s \in BaseSlots(out.ts) :
                LET b == DefAt(out.ts, s).base
                IN  \E j \in DOMAIN out.ret :
                        /\ out.ret[j] = ExpectedBase(out.ts, s)
                        /\ b.rotates # None => out.ret[j].rotates = b.rotates
                        /\ b.rotates = None => out.ret[j].rotates = Some(b.multitile)

\* A multitile definition without rotates was expanded.
C6_Witness ==
    /\ Expanded
    /\ \E s \in BaseSlots(out.ts) :
        /\ DefAt(out.ts, s).base.rotates = None
        /\ DefAt(out.ts, s).base.multitile
        /\ \E j \in DOMAIN out.ret :
                out.ret[j].id = <<ParentId(out.ts, s)>> /\ out.ret[j].rotates = Some(TRUE)

----------------------------------------------------------------------------
(* Properties of the atlases. *)

\* C7: the atlases are those of the blocks, in their order; the first range
\* starts at 0, each starts where the one before ends and has tiles_x * tiles_y
\* ids, with the grid the image divided by the cell; no id is in two ranges.
C7_AtlasRanges ==
    Expanded =>
        LET as == out.atlases
        IN  /\ Len(as) = Len(out.ts.tiles_new)
            /\ \A k \in DOMAIN as :
                /\ as[k].img = out.ts.tiles_new[k].file
                /\ as[k].tiles_x = as[k].img.width \div as[k].sprite_w
                /\ as[k].tiles_y = as[k].img.height \div as[k].sprite_h
                /\ as[k].tiles_start = IF k = 1 THEN 0 ELSE as[k - 1].tiles_end
                /\ as[k].tiles_end - as[k].tiles_start = as[k].tiles_x * as[k].tiles_y
            /\ \A k1, k2 \in DOMAIN as :
                k1 < k2 =>
                    (as[k1].tiles_start .. (as[k1].tiles_end - 1))
                        \cap (as[k2].tiles_start .. (as[k2].tiles_end - 1)) = {}
            /\ \A id \in ProbeIds :
                Cardinality({k \in DOMAIN as :
                                as[k].tiles_start <= id /\ id < as[k].tiles_end}) <= 1

\* Atlases were built of which one has no cell and a later one has cells.
C7_Witness ==
    /\ Expanded
    /\ \E k1, k2 \in DOMAIN out.atlases :
        /\ k1 < k2
        /\ out.atlases[k1].tiles_end = out.atlases[k1].tiles_start
        /\ out.atlases[k2].tiles_end > out.atlases[k2].tiles_start

\* The pixels of cell (col, row) of an atlas, row by row.
CellPixels(atlas, col, row) ==
    [k \in 1..(atlas.sprite_w * atlas.sprite_h) |->
        LET dx == (k - 1) % atlas.sprite_w
            dy == (k - 1) \div atlas.sprite_w
        IN  atlas.img.px[(row * atlas.sprite_h + dy) * atlas.img.width
                            + col * atlas.sprite_w + dx + 1]]

Owners(atlases, id) ==
    {k \in DOMAIN atlases : atlases[k].tiles_start <= id /\ id < atlases[k].tiles_end}

\* C8: get_sprite_hash does not panic; an id in no range gives 0 with a
\* warning; an id in a range gives, without warning, the hash of its cell in
\* the one atlas that owns it; and the hashing expansion does not panic.
C8_HashLookupTotal ==
    /\ out.op = "get_sprite_hash" =>
        LET owners == Owners(out.atlases, out.tile_id)
        IN  /\ ~out.res.panics
            /\ owners = {} => (out.res.value = 0 /\ out.res.warned)
            /\ owners # {} =>
                /\ Cardinality(owners) = 1
                /\ ~out.res.warned
                /\ \A k \in owners :
                    LET atlas == out.atlases[k]
                        local == out.tile_id - atlas.tiles_start
                    IN  out.res.value =
                            hasher_finish_as_u32(hasher_write_all(0,
                                <<atlas.sprite_w, atlas.sprite_h>>
                                    \o CellPixels(atlas, local % atlas.tiles_x,
                                                  local \div atlas.tiles_x)))
    /\ (Expanded /\ out.do_hash) => ~out.panicked

\* An id in no range was looked up in atlases that have cells.
C8_Witness ==
    /\ out.op = "get_sprite_hash"
    /\ Owners(out.atlases, out.tile_id) = {}
    /\ \E k \in DOMAIN out.atlases : out.atlases[k].tiles_end > 0
    /\ out.res.value = 0

\* C10: for an id in bounds, get_sprite takes the cell (local % tiles_x,
\* local / tiles_x), which is in the grid, and its rectangle is inside the
\* image; the ids of the range and the cells of the grid correspond one to
\* one, in row-major order.
C10_SpriteCell ==
    out.op = "get_sprite" =>
        LET atlas == out.atlas
            local == out.tile_id - atlas.tiles_start
            ids == atlas.tiles_start .. (atlas.tiles_end - 1)
            cell(id) == <<get_sprite(atlas, id).within_x, get_sprite(atlas, id).within_y>>
        IN  /\ ~out.res.panics
            /\ out.res.within_x = local % atlas.tiles_x
            /\ out.res.within_y = local \div atlas.tiles_x
            /\ out.res.within_x < atlas.tiles_x
            /\ out.res.within_y < atlas.tiles_y
            /\ out.res.x = out.res.within_x * atlas.sprite_w
            /\ out.res.y = out.res.within_y * atlas.sprite_h
            /\ out.res.x + out.res.w <= atlas.img.width
            /\ out.res.y + out.res.h <= atlas.img.height
            /\ out.res.pixels = CellPixels(atlas, out.res.within_x, out.res.within_y)
            /\ \A id1, id2 \in ids : id1 # id2 => cell(id1) # cell(id2)
            /\ \A col \in 0..(atlas.tiles_x - 1), row \in 0..(atlas.tiles_y - 1) :
                /\ Cardinality({id \in ids : cell(id) = <<col, row>>}) = 1
                /\ cell(atlas.tiles_start + row * atlas.tiles_x + col) = <<col, row>>

\* A sprite beyond the first row and the first column was cut from an image
\* that is no multiple of the cell, in an atlas that does not start at 0.
C10_Witness ==
    /\ out.op = "get_sprite"
    /\ out.atlas.tiles_start > 0
    /\ out.atlas.img.width % out.atlas.sprite_w # 0
    /\ out.res.within_x > 0
    /\ out.res.within_y > 0

----------------------------------------------------------------------------
(* Properties of compare_tilesets, stated over the expanded lists of the   *)
(* run (out.vars1, out.vars2) and the files of the two directories.        *)

Compared == out.op = "compare"

IdsOf(tiles) == {tiles[j].id[1] : j \in DOMAIN tiles}

HasDuplicateId(tiles) ==
    \E i, j \in DOMAIN tiles : i # j /\ tiles[i].id[1] = tiles[j].id[1]

\* The ids both lists have, with records that are not equal.
DifferingIds(tiles1, tiles2) ==
    {id \in IdsOf(tiles1) \cap IdsOf(tiles2) :
        \E i \in DOMAIN tiles1, j \in DOMAIN tiles2 :
            tiles1[i].id[1] = id /\ tiles2[j].id[1] = id /\ tiles1[i] # tiles2[j]}

\* A file that lists each id of S once, and nothing else.
Lists(file, S) ==
    /\ file # None
    /\ Range(file[1]) = S
    /\ Len(file[1]) = Cardinality(S)

\* C1: without duplicate ids, the exclusives of a side are its ids minus the
\* other side's, and the differing ids of either side are the ids of both
\* sides whose records are not equal; so the two lists of a side are disjoint
\* and an id with equal records is in neither.
C1_ExclusiveDifferingPartition ==
    (Compared /\ ~HasDuplicateId(out.vars1) /\ ~HasDuplicateId(out.vars2)) =>
        LET A == IdsOf(out.vars1)
            B == IdsOf(out.vars2)
            D == DifferingIds(out.vars1, out.vars2)
        IN  /\ Lists(fs[out.a].exclusives, A \ B)
            /\ Lists(fs[out.b].exclusives, B \ A)
            /\ Lists(fs[out.a].different, D)
            /\ Lists(fs[out.b].different, D)
            /\ Range(fs[out.a].exclusives[1]) \cap Range(fs[out.a].different[1]) = {}
            /\ Range(fs[out.b].exclusives[1]) \cap Range(fs[out.b].different[1]) = {}
            /\ \A x \in Range(out.vars1) \cap Range(out.vars2) :
                /\ x.id[1] \notin Range(fs[out.a].exclusives[1]) \cup Range(fs[out.a].different[1])
                /\ x.id[1] \notin Range(fs[out.b].exclusives[1]) \cup Range(fs[out.b].different[1])

\* Two tilesets without duplicates were compared that have an id each that
\* the other lacks and an id with different records.
C1_Witness ==
    /\ Compared
    /\ ~HasDuplicateId(out.vars1) /\ ~HasDuplicateId(out.vars2)
    /\ IdsOf(out.vars1) \ IdsOf(out.vars2) # {}
    /\ IdsOf(out.vars2) \ IdsOf(out.vars1) # {}
    /\ fs[out.a].different # None /\ fs[out.a].different[1] # <<>>
    /\ fs[out.b].different = fs[out.a].different

\* The differing ids a directory lists: none without the file.
DifferingListed(d) == IF fs[d].different = None THEN <<>> ELSE fs[d].different[1]

\* C2 as claimed: when a side has a duplicate id, its duplicates list is not
\* empty, the differing-id list of both sides is empty, and the duplicates
\* and exclusives of both sides are written.
C2_AsClaimed ==
    (Compared /\ (HasDuplicateId(out.vars1) \/ HasDuplicateId(out.vars2))) =>
        /\ HasDuplicateId(out.vars1) =>
                (fs[out.a].duplicates # None /\ DOMAIN fs[out.a].duplicates[1] # {})
        /\ HasDuplicateId(out.vars2) =>
                (fs[out.b].duplicates # None /\ DOMAIN fs[out.b].duplicates[1] # {})
        /\ DifferingListed(out.a) = <<>>
        /\ DifferingListed(out.b) = <<>>
        /\ fs[out.a].duplicates # None /\ fs[out.b].duplicates # None
        /\ Lists(fs[out.a].exclusives, IdsOf(out.vars1) \ IdsOf(out.vars2))
        /\ Lists(fs[out.b].exclusives, IdsOf(out.vars2) \ IdsOf(out.vars1))

\* C2, amended: a comparison in which a side has a duplicate id writes a
\* duplicates list that is not empty for that side, writes the duplicates and
\* the exclusives of both sides, warns, and writes no differing-id list: the
\* file of either side is after the run what it was before it.
C2_DiffNotWritten ==
    [][(out'.op = "compare" /\ (HasDuplicateId(out'.vars1) \/ HasDuplicateId(out'.vars2))) =>
            /\ HasDuplicateId(out'.vars1) =>
                    (fs'[out'.a].duplicates # None /\ DOMAIN fs'[out'.a].duplicates[1] # {})
            /\ HasDuplicateId(out'.vars2) =>
                    (fs'[out'.b].duplicates # None /\ DOMAIN fs'[out'.b].duplicates[1] # {})
            /\ fs'[out'.a].duplicates # None /\ fs'[out'.b].duplicates # None
            /\ Lists(fs'[out'.a].exclusives, IdsOf(out'.vars1) \ IdsOf(out'.vars2))
            /\ Lists(fs'[out'.b].exclusives, IdsOf(out'.vars2) \ IdsOf(out'.vars1))
            /\ out'.warned
            /\ fs'[out'.a].different = fs[out'.a].different
            /\ fs'[out'.b].different = fs[out'.b].different]_vars

\* A comparison with a duplicate id on the second side only has run in
\* directories that an earlier comparison left a differing id in.
C2_Witness ==
    /\ Compared
    /\ ~HasDuplicateId(out.vars1) /\ HasDuplicateId(out.vars2)
    /\ DOMAIN fs[out.b].duplicates[1] # {}
    /\ DifferingListed(out.a) # <<>>
    /\ DifferingListed(out.b) # <<>>


----------------------------------------------------------------------------
(* Extraction *)

Extracted == out.op = "extract"

\* The sprite ids a tile record names, in fg or in bg.
SpriteIdsOf(t) ==
    UNION ({Range(t.fg[i].id) : i \in DOMAIN t.fg}
            \cup {Range(t.bg[i].id) : i \in DOMAIN t.bg})

\* The hash of the sprite with a positional id: that of the cell in the first
\* atlas that owns the id, 0 when no atlas does.
HashOfSprite(atlases, id) ==
    IF Owners(atlases, id) = {} THEN 0
    ELSE LET k == CHOOSE k \in Owners(atlases, id) :
                    \A m \in Owners(atlases, id) : k <= m
         IN  atlas_get_sprite_hash(atlases[k], id).value

HashedEntries(entries, atlases) ==
    [i \in DOMAIN entries |->
        [id |-> [j \in DOMAIN entries[i].id |-> HashOfSprite(atlases, entries[i].id[j])],
         weight |-> entries[i].weight]]

\* The hashed form of a tile record: its sprite ids replaced by their hashes.
HashedForm(t, atlases) ==
    [t EXCEPT !.fg = HashedEntries(t.fg, atlases), !.bg = HashedEntries(t.bg, atlases)]

\* The tile records of the expansion that have the id.
RecordsOf(id) == {out.vars[j] : j \in {j \in DOMAIN out.vars : out.vars[j].id[1] = id}}

Unresolvable(t) == \E s \in SpriteIdsOf(t) : Owners(out.atlases, s) = {}

\* C3: in an extraction that runs to its end, the out directory has, for
\* every requested id that occurs in the expansion, the file <id>/<id>.json
\* holding the hashed form of the very record whose positional sprite ids the
\* images were exported from, and every sprite hash in that file names an image
\* file of the out directory.
C3_AsClaimed ==
    (Extracted /\ ~out.panicked) =>
        \A i \in DOMAIN out.rounds :
            out.rounds[i].id \in IdsOf(out.vars) =>
                LET id == out.rounds[i].id
                    json == fs[out.dir].extracted_json
                    png == fs[out.dir].extracted_png
                IN  /\ out.rounds[i].found
                    /\ id \in DOMAIN json
                    /\ json[id].id = <<id>>
                    /\ json[id] = HashedForm(out.rounds[i].variation[1], out.atlases)
                    /\ \A h \in SpriteIdsOf(json[id]) : fmt_010(h) \in DOMAIN png

\* C9: the rounds follow the requested ids in order.  A round for an id that
\* the expansion lacks warns, writes neither a JSON file nor an image and does
\* not abort, so the ids after it get their rounds; a round for an id all of
\* whose records name a sprite id that no atlas owns aborts, and only a round
\* for an id with such a record aborts; an abort is the last round, and it is
\* the only thing that keeps a requested id from getting its round.
C9_AbsentWarnsUnresolvableAborts ==
    Extracted =>
        LET rounds == out.rounds
            ids == out.ids
        IN  /\ Len(rounds) <= Len(ids)
            /\ \A i \in DOMAIN rounds : rounds[i].id = ids[i]
            /\ \A i \in DOMAIN rounds :
                /\ ids[i] \notin IdsOf(out.vars) =>
                    /\ rounds[i].warned
                    /\ ~rounds[i].found
                    /\ rounds[i].saved = <<>>
                    /\ ~rounds[i].panicked
                    /\ ids[i] \notin DOMAIN fs[out.dir].extracted_json
                /\ ids[i] \in IdsOf(out.vars) =>
                    /\ ~rounds[i].warned
                    /\ (\A t \in RecordsOf(ids[i]) : Unresolvable(t)) => rounds[i].panicked
                    /\ rounds[i].panicked => \E t \in RecordsOf(ids[i]) : Unresolvable(t)
                /\ rounds[i].panicked => (i = Len(rounds) /\ out.panicked)
            /\ Len(rounds) < Len(ids) => (rounds # <<>> /\ rounds[Len(rounds)].panicked)
            /\ out.panicked => (rounds # <<>> /\ rounds[Len(rounds)].panicked)

\* An extraction was asked for an id the expansion lacks, then for an id whose
\* record names a sprite no atlas owns, then for an id the expansion has: the
\* first round warned, the second aborted and the third id got no round.
C9_Witness ==
    /\ Extracted
    /\ Len(out.ids) = 3
    /\ out.ids[1] \notin IdsOf(out.vars)
    /\ out.ids[2] \in IdsOf(out.vars)
    /\ \A t \in RecordsOf(out.ids[2]) : Unresolvable(t)
    /\ out.ids[3] \in IdsOf(out.vars)
    /\ Len(out.rounds) = 2
    /\ out.rounds[1].warned
    /\ out.rounds[2].panicked

====
